---- MODULE Spec2Model ----
(***************************************************************************)
(* A model of the Romanian tax calculator (PFA / SRL):                     *)
(*   - the scenario store useTaxStore (zustand store: the working          *)
(*     configuration currentProject, the saved list projects, the bound    *)
(*     activeProjectId, and its operations);                               *)
(*   - the company calculator useSRLCalculations.                          *)
(*                                                                         *)
(* JavaScript objects are modelled with their identity: a ProjectData      *)
(* object lives at a heap address, and a field that holds an object holds  *)
(* its address, so that sharing of one object between the working          *)
(* configuration and a stored scenario is visible.  Date.now() is a        *)
(* non-decreasing clock read: two reads may return the same millisecond.   *)
(***************************************************************************)
EXTENDS Integers, Sequences, FiniteSets, TLC

(* ------------------------------ bounds --------------------------------- *)

\* longest scenario list the model builds
MaxProjects == 2

\* last millisecond of the clock
MaxClock == 1

\* most calls in a run that bring new content into the store: calls of the
\* setters of the working configuration and successful imports of a file
MaxInputs == 1

\* most runs of fetchRates (the first and the ones of the 30-minute interval)
MaxFetches == 4

VARIABLES
    heap,             \* address -> ProjectData object
    currentProject,   \* address of the working configuration
    projects,         \* sequence of Project records; data holds an address
    activeProjectId,  \* an id, or Null
    clock,            \* the last value Date.now() returned
    inputs,           \* number of setter calls and successful file imports so far
    lastOp,           \* the last store operation called; ret is what it
                      \* returned or, for a void one, the branch it took
    calcIn,           \* the arguments of useSRLCalculations
    calcOut,          \* the breakdown it returned, or NoResult
    exchange          \* state of useExchangeRates: rates, isLoading, error, with
                      \* the number of runs of fetchRates and the last response

storeVars == <<heap, currentProject, projects, activeProjectId, clock, inputs, lastOp>>

calcVars == <<calcIn, calcOut>>

hookVars == <<calcIn, calcOut, exchange>>

vars == <<heap, currentProject, projects, activeProjectId, clock, inputs, lastOp, calcIn, calcOut,
          exchange>>

(* ------------------------------ values --------------------------------- *)

\* an id that is a string: Date.now().toString() of millisecond n, or the
\* same decimal string read from a file
StrId(n) == [t |-> "str", v |-> n]

\* an id that is an object (a JSON file may hold one); v is its identity
ObjId(n) == [t |-> "obj", v |-> n]

\* activeProjectId: null
Null == [t |-> "null", v |-> 0]

\* a property absent from a parsed JSON object (reads as undefined)
Absent == "<absent>"

Min(S) == CHOOSE x \in S : \A y \in S : x <= y

defaultProjectData ==
    [ mode            |-> "pfa",
      incomes         |-> << [id |-> 1, name |-> "Web Project", amount |-> 4000,
                              isRecurring |-> FALSE, months |-> 1] >>,
      monthlyExpenses |-> 0,
      displayCurrency |-> "RON",
      srlOptions      |-> [isMicro |-> TRUE, dividendPercent |-> 50,
                           paySalary |-> FALSE, monthlySalary |-> 4050] ]

\* the address of the module-level constant defaultProjectData
DefaultAddr == 0

\* the addresses the store's objects have between two operations
Addr == 0..(MaxProjects + 1)

\* the k-th object an operation creates
Fresh(k) == MaxProjects + 1 + k

\* the addresses during an operation
RawAddr == 0..(2 * MaxProjects + 1)

\* what the callers pass to the store
Names == {"", "a"}

Modes == {"srl"}

IncomeLists == { << >> }

ExpenseValues == {1000}

CurrencyValues == {"EUR"}

SrlOptionValues ==
    { [isMicro |-> FALSE, dividendPercent |-> 50, paySalary |-> FALSE, monthlySalary |-> 4050] }

\* Partial<ProjectData> arguments of updateCurrentProject
UpdateValues == { [mode |-> "srl", monthlyExpenses |-> 1000] }

(* ------------------------------ the heap ------------------------------- *)

\* Addresses and the identities of id objects carry no meaning.  After each
\* operation the objects are renamed: a scenario's data object takes the
\* index of the first scenario that holds it, the working configuration the
\* index of the first scenario that shares it or else MaxProjects + 1, the
\* constant default object keeps address 0, an id object takes the index of
\* its scenario.  Unreachable objects are collected: their cells hold the
\* default value.
FirstHolder(projs, a) == Min({j \in 1..Len(projs) : projs[j].data = a})

NewAddr(projs, a) ==
    IF a = DefaultAddr THEN DefaultAddr
    ELSE IF \E j \in 1..Len(projs) : projs[j].data = a THEN FirstHolder(projs, a)
    ELSE MaxProjects + 1

NewId(projs, id) ==
    IF id.t = "obj" /\ \E j \in 1..Len(projs) : projs[j].id = id
    THEN ObjId(Min({j \in 1..Len(projs) : projs[j].id = id}))
    ELSE id

Collect(h, cur, projs, active) ==
    [ heap |-> [n \in Addr |->
                  IF n = DefaultAddr THEN h[DefaultAddr]
                  ELSE IF n <= Len(projs)
                  THEN IF NewAddr(projs, projs[n].data) = n THEN h[projs[n].data]
                       ELSE defaultProjectData
                  ELSE IF n = MaxProjects + 1 /\ NewAddr(projs, cur) = n THEN h[cur]
                  ELSE defaultProjectData],
      currentProject |-> NewAddr(projs, cur),
      projects |-> [i \in 1..Len(projs) |->
                      [projs[i] EXCEPT !.id = NewId(projs, @),
                                       !.data = NewAddr(projs, @)]],
      activeProjectId |-> NewId(projs, active) ]

\* the heap with the objects an operation creates: news[k] is the value of
\* the k-th one
WithNew(news) ==
    [a \in RawAddr |-> IF a \in Addr THEN heap[a]
                       ELSE IF a - (MaxProjects + 1) <= Len(news)
                       THEN news[a - (MaxProjects + 1)]
                       ELSE defaultProjectData]

\* set({...}): the store holds heap h, working configuration cur, list projs
\* and bound id active
Set(h, cur, projs, active) ==
    LET c == Collect(h, cur, projs, active)
    IN /\ heap' = c.heap
       /\ currentProject' = c.currentProject
       /\ projects' = c.projects
       /\ activeProjectId' = c.activeProjectId

\* the value of a stored scenario, its data read through the heap
Value(h, p) ==
    [id |-> p.id, name |-> p.name, createdAt |-> p.createdAt,
     updatedAt |-> p.updatedAt, data |-> h[p.data]]

Values(h, projs) == [i \in 1..Len(projs) |-> Value(h, projs[i])]

IdsOf(projs) == {projs[i].id : i \in 1..Len(projs)}

CountId(projs, id) == Cardinality({i \in 1..Len(projs) : projs[i].id = id})

(* --------------------------- store operations -------------------------- *)

Called(op, ret) == lastOp' = [op |-> op, ret |-> ret]

\* The bounds of a run.  A run either lets time pass or brings new content
\* into the store: the clock advances (up to MaxClock) only while no setter
\* has been called and no file imported, and setters and imports (up to
\* MaxInputs) are called only while the clock still reads 0.
ClockReads(t) == IF inputs = 0 THEN t..MaxClock ELSE {t}

MayInput == inputs < MaxInputs /\ clock = 0

\* a setter that would write into the object it finds instead of building a
\* new one
ReplaceCurrentInPlace(newValue) ==
    /\ MayInput
    /\ inputs' = inputs + 1
    /\ Set([WithNew(<< >>) EXCEPT ![currentProject] = newValue], currentProject,
           projects, activeProjectId)
    /\ UNCHANGED clock

\* set(state => ({currentProject: {...state.currentProject, ...updates}})):
\* a new object is built; the old one is left as it is
ReplaceCurrent(newValue) ==
    /\ MayInput
    /\ inputs' = inputs + 1
    /\ Set(WithNew(<<newValue>>), Fresh(1), projects, activeProjectId)
    /\ UNCHANGED clock

Merge(old, updates) ==
    [f \in DOMAIN old |-> IF f \in DOMAIN updates THEN updates[f] ELSE old[f]]

updateCurrentProject(updates) ==
    /\ ReplaceCurrent(Merge(heap[currentProject], updates))
    /\ Called("set", "void")

setMode(mode) ==
    /\ ReplaceCurrent([heap[currentProject] EXCEPT !.mode = mode])
    /\ Called("set", "void")

setIncomes(incomes) ==
    /\ ReplaceCurrent([heap[currentProject] EXCEPT !.incomes = incomes])
    /\ Called("set", "void")

setMonthlyExpenses(monthlyExpenses) ==
    /\ ReplaceCurrent([heap[currentProject] EXCEPT !.monthlyExpenses = monthlyExpenses])
    /\ Called("set", "void")

setDisplayCurrency(displayCurrency) ==
    /\ ReplaceCurrent([heap[currentProject] EXCEPT !.displayCurrency = displayCurrency])
    /\ Called("set", "void")

setSrlOptions(srlOptions) ==
    /\ ReplaceCurrent([heap[currentProject] EXCEPT !.srlOptions = srlOptions])
    /\ Called("set", "void")

\* state.projects.find(p => p.id === state.activeProjectId) found one
ExistingProject == activeProjectId \in IdsOf(projects)

\* saveProject, the branch that updates: every record with the bound id gets
\* the name, the time and the working configuration object itself
SaveUpdate(name, now) ==
    /\ Set(WithNew(<< >>), currentProject,
           [i \in 1..Len(projects) |->
              IF projects[i].id = activeProjectId
              THEN [projects[i] EXCEPT !.name = name, !.updatedAt = now,
                                       !.data = currentProject]
              ELSE projects[i]],
           activeProjectId)
    /\ clock' = now
    /\ UNCHANGED inputs
    /\ Called("saveProject", "updated")

\* the id of a new scenario: Date.now().toString(), read at millisecond ms
GeneratedId(ms) == StrId(ms)

\* saveProject, the branch that creates: the data is a copy {...currentProject}
SaveCreate(name, now, ms) ==
    /\ Len(projects) < MaxProjects
    /\ LET newProject == [id |-> GeneratedId(ms), name |-> name, createdAt |-> now,
                          updatedAt |-> now, data |-> Fresh(1)]
       IN Set(WithNew(<<heap[currentProject]>>), currentProject,
              Append(projects, newProject), newProject.id)
    /\ clock' = ms
    /\ UNCHANGED inputs
    /\ Called("saveProject", "created")

saveProject(name) ==
    \E now \in ClockReads(clock) :
        IF ExistingProject
        THEN SaveUpdate(name, now)
        ELSE \E ms \in ClockReads(now) : SaveCreate(name, now, ms)

\* find returns the first scenario with the id
FindProject(id) == projects[Min({i \in 1..Len(projects) : projects[i].id = id})]

\* a load that would take the data and leave the bound id as it is
loadProjectUnbound(id) ==
    IF id \in IdsOf(projects)
    THEN /\ Set(WithNew(<<heap[FindProject(id).data]>>), Fresh(1), projects, activeProjectId)
         /\ UNCHANGED <<clock, inputs>>
         /\ Called("loadProject", "found")
    ELSE /\ UNCHANGED <<heap, currentProject, projects, activeProjectId, clock, inputs>>
         /\ Called("loadProject", "missing")

loadProject(id) ==
    IF id \in IdsOf(projects)
    THEN /\ Set(WithNew(<<heap[FindProject(id).data]>>), Fresh(1), projects, id)
         /\ UNCHANGED <<clock, inputs>>
         /\ Called("loadProject", "found")
    ELSE /\ UNCHANGED <<heap, currentProject, projects, activeProjectId, clock, inputs>>
         /\ Called("loadProject", "missing")

\* a delete that would unbind the id and leave the working configuration
deleteProjectKeepCurrent(id) ==
    /\ Set(WithNew(<< >>), currentProject,
           SelectSeq(projects, LAMBDA p : p.id # id),
           IF activeProjectId = id THEN Null ELSE activeProjectId)
    /\ UNCHANGED <<clock, inputs>>
    /\ Called("deleteProject", IF activeProjectId = id THEN "active" ELSE "other")

\* a delete that would leave the bound id as it is
deleteProjectKeepBound(id) ==
    /\ Set(WithNew(<< >>),
           IF activeProjectId = id THEN DefaultAddr ELSE currentProject,
           SelectSeq(projects, LAMBDA p : p.id # id),
           activeProjectId)
    /\ UNCHANGED <<clock, inputs>>
    /\ Called("deleteProject", IF activeProjectId = id THEN "active" ELSE "other")

deleteProject(id) ==
    /\ Set(WithNew(<< >>),
           IF activeProjectId = id THEN DefaultAddr ELSE currentProject,
           SelectSeq(projects, LAMBDA p : p.id # id),
           IF activeProjectId = id THEN Null ELSE activeProjectId)
    /\ UNCHANGED <<clock, inputs>>
    /\ Called("deleteProject", IF activeProjectId = id THEN "active" ELSE "other")

clearAllProjects ==
    /\ Set(WithNew(<< >>), DefaultAddr, << >>, Null)
    /\ UNCHANGED <<clock, inputs>>
    /\ Called("clearAllProjects", "void")

(* ------------------------- JSON export and import ---------------------- *)

\* A JSON text is modelled by what JSON.parse makes of it: whether it parses,
\* whether the top-level value is a non-null object, what its "projects"
\* property is, and the items of that array.  An item is null or an object
\* whose id, name and data may be absent (or falsy).  A text holds no object
\* identity: an id that is an object is written [t |-> "obj", v |-> 0].
JsonText(wellFormed, top, projectsKind, items) ==
    [wellFormed |-> wellFormed, top |-> top, projectsKind |-> projectsKind,
     version |-> "1.0", exportedAt |-> 0, items |-> items]

JsonItem(id, name, data) ==
    [isNull |-> FALSE, id |-> id, name |-> name, createdAt |-> 0, updatedAt |-> 0,
     data |-> data]

AbsentId == [t |-> "absent", v |-> 0]

ObjIdText == [t |-> "obj", v |-> 0]

PresentData(v) == [present |-> TRUE, v |-> v]

AbsentData == [present |-> FALSE, v |-> defaultProjectData]

FileDataValue == [defaultProjectData EXCEPT !.mode = "srl", !.monthlyExpenses = 500]

Item0 == JsonItem(StrId(0), "a", PresentData(FileDataValue))

Item1 == JsonItem(StrId(1), "a", PresentData(FileDataValue))

ItemObj == JsonItem(ObjIdText, "a", PresentData(FileDataValue))

ItemNoId == JsonItem(AbsentId, "a", PresentData(FileDataValue))

ItemNoName == JsonItem(StrId(1), Absent, PresentData(FileDataValue))

ItemEmptyName == JsonItem(StrId(1), "", PresentData(FileDataValue))

ItemNoData == JsonItem(StrId(1), "a", AbsentData)

ItemNull == [JsonItem(AbsentId, Absent, AbsentData) EXCEPT !.isNull = TRUE]

\* the file contents a user may pick for import
Files ==
    { JsonText(FALSE, "null", "absent", << >>),
      JsonText(TRUE, "null", "absent", << >>),
      JsonText(TRUE, "object", "absent", << >>),
      JsonText(TRUE, "object", "other", << >>),
      JsonText(TRUE, "object", "array", << >>),
      JsonText(TRUE, "object", "array", <<Item0>>),
      JsonText(TRUE, "object", "array", <<Item0, Item1>>),
      JsonText(TRUE, "object", "array", <<Item1, Item1>>),
      JsonText(TRUE, "object", "array", <<ItemObj>>),
      JsonText(TRUE, "object", "array", <<Item1, ItemNoId>>),
      JsonText(TRUE, "object", "array", <<ItemNoName>>),
      JsonText(TRUE, "object", "array", <<Item0, ItemEmptyName>>),
      JsonText(TRUE, "object", "array", <<ItemNoData, Item0>>),
      JsonText(TRUE, "object", "array", <<Item0, ItemNull>>) }

\* JSON.stringify of one scenario: the data object is written by value, an
\* id object loses its identity
StringifyProject(p) ==
    [isNull |-> FALSE,
     id |-> IF p.id.t = "obj" THEN ObjIdText ELSE p.id,
     name |-> p.name, createdAt |-> p.createdAt, updatedAt |-> p.updatedAt,
     data |-> PresentData(heap[p.data])]

\* exportProjects called at time now: JSON.stringify({version, exportedAt, projects})
exportProjects(now) ==
    [wellFormed |-> TRUE, top |-> "object", projectsKind |-> "array",
     version |-> "1.0", exportedAt |-> now,
     items |-> [i \in 1..Len(projects) |-> StringifyProject(projects[i])]]

\* !project.id || !project.name || !project.data
InvalidItem(item) ==
    \/ item.id.t = "absent"
    \/ item.name \in {Absent, ""}
    \/ ~item.data.present

\* a validation that would look at the first item of the file only
ThrownOnFirstItem(json) ==
    IF ~json.wellFormed THEN "SyntaxError"
    ELSE IF json.top = "null" THEN "TypeError"
    ELSE IF json.projectsKind # "array" THEN "Invalid JSON structure"
    ELSE IF Len(json.items) > 0 /\ json.items[1].isNull THEN "TypeError"
    ELSE IF Len(json.items) > 0 /\ InvalidItem(json.items[1])
         THEN "Invalid project structure"
    ELSE "none"

\* what the body of the try block throws before it reaches set(), or "none"
Thrown(json) ==
    IF ~json.wellFormed THEN "SyntaxError"
    ELSE IF json.top = "null" THEN "TypeError"
    ELSE IF json.projectsKind # "array" THEN "Invalid JSON structure"
    ELSE IF \E i \in 1..Len(json.items) : json.items[i].isNull THEN "TypeError"
    ELSE IF \E i \in 1..Len(json.items) : InvalidItem(json.items[i])
         THEN "Invalid project structure"
    ELSE "none"

\* a handler that would catch only the errors the validation itself throws
CaughtValidationOnly(error) ==
    error \in {"Invalid JSON structure", "Invalid project structure"}

\* catch (error): every error thrown in the try block is caught
Caught(error) == TRUE

\* existingIds.has(id) for the id of a freshly parsed item: a string is
\* found by value, a parsed object is a new object and is never found
HasId(existingIds, idText) == idText.t = "str" /\ idText \in existingIds

\* a merge that would keep every item of the file
NewItemsUnfiltered(json) == json.items

\* data.projects.filter(p => !existingIds.has(p.id))
NewItems(json) ==
    SelectSeq(json.items, LAMBDA item : ~HasId(IdsOf(projects), item.id))

\* the scenario objects JSON.parse built for the kept items: each id object
\* and each data object is a new object
ParsedProjects(items) ==
    [k \in 1..Len(items) |->
       [id |-> IF items[k].id.t = "obj" THEN ObjId(Len(projects) + k) ELSE items[k].id,
        name |-> items[k].name, createdAt |-> items[k].createdAt,
        updatedAt |-> items[k].updatedAt, data |-> Fresh(k)]]

\* set({projects: [...state.projects, ...newProjects]})
ImportMerge(json) ==
    LET items == NewItems(json)
    IN /\ Len(projects) + Len(items) <= MaxProjects
       /\ Set(WithNew([k \in 1..Len(items) |-> items[k].data.v]), currentProject,
              projects \o ParsedProjects(items), activeProjectId)

\* importProjects(json), the clock left to the caller; op names the call
ImportAs(op, json) ==
    IF Thrown(json) = "none"
    THEN /\ ImportMerge(json)
         /\ Called(op, "true")
    ELSE /\ UNCHANGED <<heap, currentProject, projects, activeProjectId>>
         /\ Called(op, IF Caught(Thrown(json)) THEN "false" ELSE "threw")

importProjects(json) ==
    /\ ImportAs("importProjects", json)
    /\ UNCHANGED clock
    /\ IF Thrown(json) = "none"
       THEN MayInput /\ inputs' = inputs + 1
       ELSE UNCHANGED inputs

\* importProjects(exportProjects()) on the same store
ImportExported ==
    \E now \in ClockReads(clock) :
        /\ clock' = now
        /\ ImportAs("importExported", exportProjects(now))
        /\ UNCHANGED inputs

(* ------------------------- the company calculator ---------------------- *)

\* Amounts are exact: an input amount is an integer number of RON, a rate and
\* every derived amount a fraction [n, d] in lowest terms (d > 0).  The
\* rounding of IEEE-754 doubles is not modelled.
RECURSIVE GCD(_, _)
GCD(a, b) == IF b = 0 THEN a ELSE GCD(b, a % b)

Abs(n) == IF n < 0 THEN -n ELSE n

Rat(n, d) ==
    LET g == GCD(Abs(n), d)
    IN IF n = 0 THEN [n |-> 0, d |-> 1] ELSE [n |-> n \div g, d |-> d \div g]

Whole(n) == [n |-> n, d |-> 1]

\* x * y, reduced before the products are formed
Mul(x, y) ==
    LET g1 == IF x.n = 0 THEN y.d ELSE GCD(Abs(x.n), y.d)
        g2 == IF y.n = 0 THEN x.d ELSE GCD(Abs(y.n), x.d)
    IN Rat((x.n \div g1) * (y.n \div g2), (x.d \div g2) * (y.d \div g1))

Add(x, y) ==
    LET l == (x.d \div GCD(x.d, y.d)) * y.d
    IN Rat(x.n * (l \div x.d) + y.n * (l \div y.d), l)

Sub(x, y) == Add(x, [n |-> -y.n, d |-> y.d])

\* Math.max(0, x)
Max0(x) == IF x.n < 0 THEN Whole(0) ELSE x

\* x / y for y > 0
Div(x, y) == Mul(x, [n |-> y.d, d |-> y.n])

Less(x, y) == Sub(x, y).n < 0

\* Math.min(x, y)
RMin(x, y) == IF Less(y, x) THEN y ELSE x

MINIMUM_SALARY == 4050

MICRO_TAX_RATE == Rat(1, 100)

STANDARD_TAX_RATE == Rat(16, 100)

MICRO_REVENUE_LIMIT == 500000

SRL_ACCOUNTING_LOW == 3000

SRL_ACCOUNTING_HIGH == 9000

SRL_BANK_FEES == 1500

SRL_DIGITAL_SIGNATURE == 300

EMPLOYER_CAM_RATE == Rat(225, 10000)

\* an aggregator that would multiply by months whatever it is
IncomeOfDirect(inc) ==
    IF inc.isRecurring THEN inc.amount * inc.months ELSE inc.amount

\* inc.isRecurring ? inc.amount * (inc.months || 12) : inc.amount
IncomeOf(inc) ==
    IF inc.isRecurring
    THEN inc.amount * (IF inc.months = 0 THEN 12 ELSE inc.months)
    ELSE inc.amount

RECURSIVE SumIncomes(_, _)
SumIncomes(incomes, n) ==
    IF n = 0 THEN 0 ELSE SumIncomes(incomes, n - 1) + IncomeOf(incomes[n])

calculateAnnualIncome(incomes) == SumIncomes(incomes, Len(incomes))

\* (SRL_ACCOUNTING_LOW + SRL_ACCOUNTING_HIGH) / 2 + SRL_BANK_FEES + SRL_DIGITAL_SIGNATURE
OperatingCosts ==
    Add(Rat(SRL_ACCOUNTING_LOW + SRL_ACCOUNTING_HIGH, 2),
        Whole(SRL_BANK_FEES + SRL_DIGITAL_SIGNATURE))

CanBeMicro(annualRevenue) == annualRevenue <= MICRO_REVENUE_LIMIT

\* a regime that would follow the option alone
IsMicroByOption(srlOptions, canBeMicro) == srlOptions.isMicro

\* srlOptions.isMicro && canBeMicro
IsMicro(srlOptions, canBeMicro) == srlOptions.isMicro /\ canBeMicro

\* grossSalary + grossSalary * EMPLOYER_CAM_RATE when a salary is paid, else 0
SalaryCostToCompany(srlOptions) ==
    IF srlOptions.paySalary
    THEN LET grossSalary == Whole(srlOptions.monthlySalary * 12)
         IN Add(grossSalary, Mul(grossSalary, EMPLOYER_CAM_RATE))
    ELSE Whole(0)

GrossProfit(annualRevenue, annualExpenses, salaryCostToCompany, operatingCosts) ==
    Max0(Sub(Sub(Sub(Whole(annualRevenue), Whole(annualExpenses)),
                 salaryCostToCompany), operatingCosts))

\* a tax that would always be the standard rate on the profit
CorporateTaxOnProfit(isMicro, annualRevenue, grossProfit) ==
    Mul(grossProfit, STANDARD_TAX_RATE)

\* isMicro ? annualRevenue * MICRO_TAX_RATE : grossProfit * STANDARD_TAX_RATE
CorporateTax(isMicro, annualRevenue, grossProfit) ==
    IF isMicro THEN Mul(Whole(annualRevenue), MICRO_TAX_RATE)
    ELSE Mul(grossProfit, STANDARD_TAX_RATE)

\* a net profit that would not be clamped
NetProfitUnclamped(grossProfit, corporateTax) == Sub(grossProfit, corporateTax)

\* Math.max(0, grossProfit - corporateTax)
NetProfit(grossProfit, corporateTax) == Max0(Sub(grossProfit, corporateTax))

DIVIDEND_TAX_RATE == Rat(16, 100)

VAT_RATE == Rat(19, 100)

EMPLOYEE_CAS_RATE == Rat(25, 100)

EMPLOYEE_CASS_RATE == Rat(10, 100)

SALARY_INCOME_TAX_RATE == Rat(10, 100)

\* srlOptions.vatStatus !== 'not_registered'
IsVATRegistered(srlOptions) == srlOptions.vatStatus # "not_registered"

\* annualRevenue * (1 - srlOptions.euRevenuePercent / 100)
DomesticRevenue(annualRevenue, srlOptions) ==
    Mul(Whole(annualRevenue), Sub(Whole(1), Rat(srlOptions.euRevenuePercent, 100)))

VatCollected(annualRevenue, srlOptions) ==
    IF IsVATRegistered(srlOptions)
    THEN Mul(DomesticRevenue(annualRevenue, srlOptions), VAT_RATE)
    ELSE Whole(0)

VatOnExpenses(annualExpenses, srlOptions) ==
    IF IsVATRegistered(srlOptions) THEN Mul(Whole(annualExpenses), VAT_RATE)
    ELSE Whole(0)

\* a balance that would not be clamped
VatToPayUnclamped(vatCollected, vatOnExpenses) == Sub(vatCollected, vatOnExpenses)

\* Math.max(0, vatCollected - vatOnExpenses)
VatToPay(vatCollected, vatOnExpenses) == Max0(Sub(vatCollected, vatOnExpenses))

\* the salary block: every amount is 0 unless a salary is paid
Salary(srlOptions) ==
    IF srlOptions.paySalary
    THEN LET grossSalary == Whole(srlOptions.monthlySalary * 12)
             salaryEmployerCAM == Mul(grossSalary, EMPLOYER_CAM_RATE)
             salaryEmployeeCAS == Mul(grossSalary, EMPLOYEE_CAS_RATE)
             salaryEmployeeCASS == Mul(grossSalary, EMPLOYEE_CASS_RATE)
             taxableNetSalary == Sub(Sub(grossSalary, salaryEmployeeCAS), salaryEmployeeCASS)
             salaryIncomeTax == Mul(taxableNetSalary, SALARY_INCOME_TAX_RATE)
         IN [ salaryEmployerCAM |-> salaryEmployerCAM,
              salaryEmployeeCAS |-> salaryEmployeeCAS,
              salaryEmployeeCASS |-> salaryEmployeeCASS,
              salaryIncomeTax |-> salaryIncomeTax,
              salaryCostToCompany |-> Add(grossSalary, salaryEmployerCAM),
              salaryNetToOwner |-> Sub(Sub(Sub(grossSalary, salaryEmployeeCAS),
                                           salaryEmployeeCASS), salaryIncomeTax) ]
    ELSE [ salaryEmployerCAM |-> Whole(0), salaryEmployeeCAS |-> Whole(0),
           salaryEmployeeCASS |-> Whole(0), salaryIncomeTax |-> Whole(0),
           salaryCostToCompany |-> Whole(0), salaryNetToOwner |-> Whole(0) ]

\* a total that would count the employee's contributions only
SalaryTaxesTotalEmployeeOnly(srlOptions, salary) ==
    IF srlOptions.paySalary
    THEN Add(Add(salary.salaryEmployeeCAS, salary.salaryEmployeeCASS),
             salary.salaryIncomeTax)
    ELSE Whole(0)

\* salaryEmployerCAM + salaryEmployeeCAS + salaryEmployeeCASS + salaryIncomeTax
\* when a salary is paid, else 0
SalaryTaxesTotal(srlOptions, salary) ==
    IF srlOptions.paySalary
    THEN Add(Add(Add(salary.salaryEmployerCAM, salary.salaryEmployeeCAS),
                 salary.salaryEmployeeCASS), salary.salaryIncomeTax)
    ELSE Whole(0)

\* a total that would count the VAT balance
TotalGovTaxesWithVat(corporateTax, dividendTax, salaryTaxesTotal, vatToPay) ==
    Add(Add(Add(corporateTax, dividendTax), salaryTaxesTotal), vatToPay)

\* corporateTax + dividendTax + salaryTaxesTotal
TotalGovTaxes(corporateTax, dividendTax, salaryTaxesTotal, vatToPay) ==
    Add(Add(corporateTax, dividendTax), salaryTaxesTotal)

useSRLCalculations(incomes, monthlyExpenses, srlOptions) ==
    LET annualRevenue == calculateAnnualIncome(incomes)
        annualExpenses == monthlyExpenses * 12
        vatCollected == VatCollected(annualRevenue, srlOptions)
        vatOnExpenses == VatOnExpenses(annualExpenses, srlOptions)
        vatToPay == VatToPay(vatCollected, vatOnExpenses)
        canBeMicro == CanBeMicro(annualRevenue)
        isMicro == IsMicro(srlOptions, canBeMicro)
        salary == Salary(srlOptions)
        salaryCostToCompany == SalaryCostToCompany(srlOptions)
        grossProfit == GrossProfit(annualRevenue, annualExpenses,
                                   salaryCostToCompany, OperatingCosts)
        corporateTax == CorporateTax(isMicro, annualRevenue, grossProfit)
        netProfit == NetProfit(grossProfit, corporateTax)
        dividendAmount == Mul(netProfit, Rat(srlOptions.dividendPercent, 100))
        dividendTax == Mul(dividendAmount, DIVIDEND_TAX_RATE)
        dividendNet == Sub(dividendAmount, dividendTax)
        totalGovTaxes == TotalGovTaxes(corporateTax, dividendTax,
                                       SalaryTaxesTotal(srlOptions, salary), vatToPay)
    IN [ annualRevenue |-> annualRevenue,
         annualExpenses |-> annualExpenses,
         operatingCosts |-> OperatingCosts,
         isVATRegistered |-> IsVATRegistered(srlOptions),
         vatToPay |-> vatToPay,
         vatCollected |-> vatCollected,
         vatOnExpenses |-> vatOnExpenses,
         canBeMicro |-> canBeMicro,
         isMicro |-> isMicro,
         salaryCostToCompany |-> salaryCostToCompany,
         salaryNetToOwner |-> salary.salaryNetToOwner,
         salaryEmployerCAM |-> salary.salaryEmployerCAM,
         salaryEmployeeCAS |-> salary.salaryEmployeeCAS,
         salaryEmployeeCASS |-> salary.salaryEmployeeCASS,
         salaryIncomeTax |-> salary.salaryIncomeTax,
         grossProfit |-> grossProfit,
         corporateTax |-> corporateTax,
         netProfit |-> netProfit,
         dividendAmount |-> dividendAmount,
         dividendTax |-> dividendTax,
         dividendNet |-> dividendNet,
         retainedProfit |-> Sub(netProfit, dividendAmount),
         totalToOwner |-> Add(salary.salaryNetToOwner, dividendNet),
         totalGovTaxes |-> totalGovTaxes,
         effectiveRate |-> IF annualRevenue > 0
                           THEN Mul(Div(totalGovTaxes, Whole(annualRevenue)), Whole(100))
                           ELSE Whole(0) ]

\* the arguments the calculator is rendered with
Income(amount, isRecurring, months) ==
    [id |-> 1, name |-> "Web Project", amount |-> amount,
     isRecurring |-> isRecurring, months |-> months]

CalcIncomes ==
    { << >>,
      <<Income(4000, FALSE, 1)>>,
      <<Income(500000, FALSE, 1)>>,
      <<Income(500001, FALSE, 1)>>,
      <<Income(600000, FALSE, 1)>>,
      <<Income(50000, TRUE, 12)>>,
      <<Income(50000, TRUE, 0)>>,
      <<Income(41666, TRUE, 12), Income(8, FALSE, 1)>>,
      <<Income(300000, FALSE, 1), Income(20000, TRUE, 10), Income(1, FALSE, 7)>> }

CalcExpenses == {0, 1000, 45000}

CalcSrlOptions ==
    [ isMicro : BOOLEAN, dividendPercent : {0, 50, 100}, paySalary : BOOLEAN,
      monthlySalary : {MINIMUM_SALARY},
      vatStatus : {"not_registered", "registered", "voluntary"},
      euRevenuePercent : {0, 50, 100} ]

NoInput ==
    [incomes |-> << >>, monthlyExpenses |-> 0,
     srlOptions |-> [isMicro |-> TRUE, dividendPercent |-> 50, paySalary |-> FALSE,
                     monthlySalary |-> MINIMUM_SALARY,
                     vatStatus |-> "not_registered", euRevenuePercent |-> 0]]

NoResult == [annualRevenue |-> -1]

HasResult == calcOut # NoResult

\* the component renders: useMemo computes the breakdown from its arguments
RenderSRL ==
    /\ calcOut = NoResult
    /\ calcOut' = useSRLCalculations(calcIn.incomes, calcIn.monthlyExpenses, calcIn.srlOptions)
    /\ UNCHANGED <<calcIn, heap, currentProject, projects, activeProjectId, clock, inputs, lastOp,
                   exchange>>

(* --------------------------- the exchange rates ------------------------ *)

FALLBACK_RATES == [RON |-> Whole(1), EUR |-> Rat(2, 10), USD |-> Rat(22, 100)]

\* a value read from the parsed body
Number(x) == [t |-> "number", v |-> x]

Undefined == [t |-> "undefined", v |-> Whole(0)]

Text == [t |-> "string", v |-> Whole(0)]

JsonNull == [t |-> "null", v |-> Whole(0)]

\* A response to the request: whether fetch resolved, response.ok, whether
\* the body parses, what the body is ("null", "primitive" or "object"), what
\* its rates property is ("absent", "null", "primitive" or "object") and what
\* the EUR and USD properties of that object are.
Response(resolved, ok, parses, data, ratesKind, eur, usd) ==
    [resolved |-> resolved, ok |-> ok, parses |-> parses, data |-> data,
     ratesKind |-> ratesKind, EUR |-> eur, USD |-> usd]

EurValues == {Number(Rat(2, 10)), Number(Rat(196, 1000)), Undefined, Text, JsonNull}

UsdValues == {Number(Rat(22, 100)), Number(Rat(215, 1000)), Undefined, Text}

Responses ==
    { Response(FALSE, FALSE, FALSE, "null", "absent", Undefined, Undefined),
      Response(TRUE, FALSE, TRUE, "object", "absent", Undefined, Undefined),
      Response(TRUE, TRUE, FALSE, "null", "absent", Undefined, Undefined),
      Response(TRUE, TRUE, TRUE, "null", "absent", Undefined, Undefined),
      Response(TRUE, TRUE, TRUE, "primitive", "absent", Undefined, Undefined),
      Response(TRUE, TRUE, TRUE, "object", "absent", Undefined, Undefined),
      Response(TRUE, TRUE, TRUE, "object", "null", Undefined, Undefined),
      Response(TRUE, TRUE, TRUE, "object", "primitive", Undefined, Undefined) }
    \cup { Response(TRUE, TRUE, TRUE, "object", "object", e, u) :
             e \in EurValues, u \in UsdValues }

\* the try block throws: fetch rejects, !response.ok, response.json() rejects,
\* or data.rates.EUR reads a property of null or undefined
FetchThrows(r) ==
    \/ ~r.resolved
    \/ ~r.ok
    \/ ~r.parses
    \/ r.data = "null"
    \/ r.data = "primitive"
    \/ r.ratesKind \in {"absent", "null"}

NoResponse == Response(FALSE, FALSE, FALSE, "none", "absent", Undefined, Undefined)

ExchangeInit ==
    exchange = [rates |-> [c \in {"RON", "EUR", "USD"} |-> Number(FALLBACK_RATES[c])],
                isLoading |-> TRUE, error |-> "null", fetches |-> 0,
                response |-> NoResponse]

\* one run of fetchRates, to its finally block, on response r
fetchRates(r) ==
    /\ exchange.fetches < MaxFetches
    /\ exchange' =
         IF FetchThrows(r)
         THEN [rates |-> [c \in {"RON", "EUR", "USD"} |-> Number(FALLBACK_RATES[c])],
               isLoading |-> FALSE, error |-> "Using fallback rates",
               fetches |-> exchange.fetches + 1, response |-> r]
         ELSE [rates |-> [c \in {"RON", "EUR", "USD"} |->
                            IF c = "RON" THEN Number(Whole(1)) ELSE r[c]],
               isLoading |-> FALSE, error |-> "null",
               fetches |-> exchange.fetches + 1, response |-> r]
    /\ UNCHANGED <<heap, currentProject, projects, activeProjectId, clock, inputs, lastOp,
                   calcIn, calcOut>>

FetchRates == \E r \in Responses : fetchRates(r)

StoreInit ==
    /\ heap = [a \in Addr |-> defaultProjectData]
    /\ currentProject = DefaultAddr
    /\ projects = << >>
    /\ activeProjectId = Null
    /\ clock = 0
    /\ inputs = 0
    /\ lastOp = [op |-> "create", ret |-> "void"]

Init ==
    /\ StoreInit
    /\ calcIn = NoInput
    /\ calcOut = NoResult
    /\ ExchangeInit

InitSRL ==
    /\ StoreInit
    /\ calcIn \in [incomes : CalcIncomes, monthlyExpenses : CalcExpenses,
                   srlOptions : CalcSrlOptions]
    /\ calcOut = NoResult
    /\ ExchangeInit

NextSRL == RenderSRL

SpecSRL == InitSRL /\ [][NextSRL]_vars

(* ------------------------ the individual calculator ------------------- *)

CASS_MIN_THRESHOLD == 6 * MINIMUM_SALARY

CASS_MAX_THRESHOLD == 60 * MINIMUM_SALARY

CAS_THRESHOLD_LOW == 12 * MINIMUM_SALARY

CAS_THRESHOLD_HIGH == 24 * MINIMUM_SALARY

CASS_MINIMUM == Mul(Whole(CASS_MIN_THRESHOLD), Rat(10, 100))

CASS_MAXIMUM == Mul(Whole(CASS_MAX_THRESHOLD), Rat(10, 100))

CAS_TIER1 == Mul(Whole(CAS_THRESHOLD_LOW), Rat(25, 100))

CAS_TIER2 == Mul(Whole(CAS_THRESHOLD_HIGH), Rat(25, 100))

INCOME_TAX_RATE == Rat(10, 100)

\* a net income that would not be clamped
NetIncomeUnclamped(annualGross, annualExpenses) == annualGross - annualExpenses

\* Math.max(0, annualGross - annualExpenses)
NetIncome(annualGross, annualExpenses) ==
    IF annualGross - annualExpenses < 0 THEN 0 ELSE annualGross - annualExpenses

\* a health contribution that would not cap the 10% of the employed
CassUncapped(pfaOptions, netIncome) ==
    IF pfaOptions.isEmployed /\ netIncome < CASS_MIN_THRESHOLD THEN Whole(0)
    ELSE IF pfaOptions.isEmployed THEN Mul(Whole(netIncome), Rat(10, 100))
    ELSE IF netIncome < CASS_MIN_THRESHOLD THEN CASS_MINIMUM
    ELSE IF netIncome > CASS_MAX_THRESHOLD THEN CASS_MAXIMUM
    ELSE Mul(Whole(netIncome), Rat(10, 100))

\* a health contribution that would not exempt the employed
CassWithoutExemption(pfaOptions, netIncome) ==
    IF netIncome < CASS_MIN_THRESHOLD THEN CASS_MINIMUM
    ELSE IF netIncome > CASS_MAX_THRESHOLD THEN CASS_MAXIMUM
    ELSE Mul(Whole(netIncome), Rat(10, 100))

\* the health contribution, with the exemption of the employed
Cass(pfaOptions, netIncome) ==
    IF pfaOptions.isEmployed /\ netIncome < CASS_MIN_THRESHOLD THEN Whole(0)
    ELSE IF pfaOptions.isEmployed
    THEN RMin(Mul(Whole(netIncome), Rat(10, 100)), CASS_MAXIMUM)
    ELSE IF netIncome < CASS_MIN_THRESHOLD THEN CASS_MINIMUM
    ELSE IF netIncome > CASS_MAX_THRESHOLD THEN CASS_MAXIMUM
    ELSE Mul(Whole(netIncome), Rat(10, 100))

\* a pension contribution whose bands would start at the thresholds
CasFromThreshold(netIncome) ==
    IF netIncome < CAS_THRESHOLD_LOW THEN Whole(0)
    ELSE IF netIncome < CAS_THRESHOLD_HIGH THEN CAS_TIER1
    ELSE CAS_TIER2

\* a pension contribution that would be due in the middle band only
CasSingleBand(netIncome) ==
    IF netIncome <= CAS_THRESHOLD_LOW THEN Whole(0)
    ELSE IF netIncome <= CAS_THRESHOLD_HIGH THEN CAS_TIER1
    ELSE Whole(0)

\* the pension contribution and its tag
Cas(netIncome) ==
    IF netIncome <= CAS_THRESHOLD_LOW THEN Whole(0)
    ELSE IF netIncome <= CAS_THRESHOLD_HIGH THEN CAS_TIER1
    ELSE CAS_TIER2

CasStatus(netIncome) ==
    IF netIncome <= CAS_THRESHOLD_LOW THEN "not_required"
    ELSE IF netIncome <= CAS_THRESHOLD_HIGH THEN "tier1"
    ELSE "tier2"

\* a base that would not deduct the health contribution
TaxableBaseWithoutCass(netIncome, cas, cass) == Max0(Sub(Whole(netIncome), cas))

\* Math.max(0, netIncome - cas - cass)
TaxableBase(netIncome, cas, cass) == Max0(Sub(Sub(Whole(netIncome), cas), cass))

\* a remainder that would be clamped to zero
CanSpendClamped(netIncome, totalTaxes) == Max0(Sub(Whole(netIncome), totalTaxes))

\* netIncome - totalTaxes, as it is
CanSpend(netIncome, totalTaxes) == Sub(Whole(netIncome), totalTaxes)

usePFACalculations(incomes, monthlyExpenses, pfaOptions) ==
    LET annualGross == calculateAnnualIncome(incomes)
        annualExpenses == monthlyExpenses * 12
        netIncome == NetIncome(annualGross, annualExpenses)
        cass == Cass(pfaOptions, netIncome)
        cas == Cas(netIncome)
        taxableBase == TaxableBase(netIncome, cas, cass)
        incomeTax == Mul(taxableBase, INCOME_TAX_RATE)
        totalTaxes == Add(Add(cas, cass), incomeTax)
    IN [ annualGross |-> annualGross,
         annualExpenses |-> annualExpenses,
         netIncome |-> netIncome,
         cas |-> cas,
         casStatus |-> CasStatus(netIncome),
         cass |-> cass,
         taxableBase |-> taxableBase,
         incomeTax |-> incomeTax,
         totalTaxes |-> totalTaxes,
         canSpend |-> CanSpend(netIncome, totalTaxes),
         effectiveRate |-> IF annualGross > 0
                           THEN Mul(Div(totalTaxes, Whole(annualGross)), Whole(100))
                           ELSE Whole(0) ]

\* the arguments the individual calculator is rendered with
PfaIncomes ==
    { << >>,
      <<Income(4000, FALSE, 1)>>,
      <<Income(24299, FALSE, 1)>>,
      <<Income(2025, TRUE, 12)>>,
      <<Income(24301, FALSE, 1)>>,
      <<Income(4050, TRUE, 12)>>,
      <<Income(48601, FALSE, 1)>>,
      <<Income(97200, FALSE, 1)>>,
      <<Income(97201, FALSE, 1)>>,
      <<Income(243000, FALSE, 1)>>,
      <<Income(243001, FALSE, 1)>>,
      <<Income(291600, FALSE, 1)>>,
      <<Income(300000, FALSE, 1)>>,
      <<Income(2000, TRUE, 0)>>,
      <<Income(1000, TRUE, -1)>>,
      <<Income(4000, FALSE, 5), Income(1000, TRUE, 3), Income(500, TRUE, 12)>> }

PfaExpenses == {0, 100, 30000}

PfaOptionValues == [isEmployed : BOOLEAN]

\* the component renders: useMemo computes the breakdown from its arguments
RenderPFA ==
    /\ calcOut = NoResult
    /\ calcOut' = usePFACalculations(calcIn.incomes, calcIn.monthlyExpenses, calcIn.pfaOptions)
    /\ UNCHANGED <<calcIn, heap, currentProject, projects, activeProjectId, clock, inputs, lastOp,
                   exchange>>

InitPFA ==
    /\ StoreInit
    /\ calcIn \in [incomes : PfaIncomes, monthlyExpenses : PfaExpenses,
                   pfaOptions : PfaOptionValues]
    /\ calcOut = NoResult
    /\ ExchangeInit

NextPFA == RenderPFA

SpecPFA == InitPFA /\ [][NextPFA]_vars

InitRates ==
    /\ StoreInit
    /\ calcIn = NoInput
    /\ calcOut = NoResult
    /\ ExchangeInit

NextRates == FetchRates

SpecRates == InitRates /\ [][NextRates]_vars

SaveProject == (\E name \in Names : saveProject(name)) /\ UNCHANGED hookVars

\* the ids a caller passes: those of the list, and one more
CallerIds == IdsOf(projects) \cup {StrId(0)}

LoadProject == (\E id \in CallerIds : loadProject(id)) /\ UNCHANGED hookVars

DeleteProject == (\E id \in CallerIds : deleteProject(id)) /\ UNCHANGED hookVars

ClearAllProjects == clearAllProjects /\ UNCHANGED hookVars

ImportProjects == (\E json \in Files : importProjects(json)) /\ UNCHANGED hookVars

Reimport == ImportExported /\ UNCHANGED hookVars

UpdateCurrentProject == (\E u \in UpdateValues : updateCurrentProject(u)) /\ UNCHANGED hookVars

SetMode == (\E m \in Modes : setMode(m)) /\ UNCHANGED hookVars

SetIncomes == (\E i \in IncomeLists : setIncomes(i)) /\ UNCHANGED hookVars

SetMonthlyExpenses == (\E e \in ExpenseValues : setMonthlyExpenses(e)) /\ UNCHANGED hookVars

SetDisplayCurrency == (\E c \in CurrencyValues : setDisplayCurrency(c)) /\ UNCHANGED hookVars

SetSrlOptions == (\E o \in SrlOptionValues : setSrlOptions(o)) /\ UNCHANGED hookVars

Next ==
    \/ SaveProject
    \/ LoadProject
    \/ DeleteProject
    \/ ClearAllProjects
    \/ ImportProjects
    \/ Reimport
    \/ UpdateCurrentProject
    \/ SetMode
    \/ SetIncomes
    \/ SetMonthlyExpenses
    \/ SetDisplayCurrency
    \/ SetSrlOptions

Spec == Init /\ [][Next]_vars

(* ------------------------------ properties ----------------------------- *)

\* an id as a text shows it: an id object without its identity
IdText(id) == IF id.t = "obj" THEN ObjIdText ELSE id

\* a stored scenario as an observer sees it
Scenario(h, p) ==
    [id |-> IdText(p.id), name |-> p.name, createdAt |-> p.createdAt,
     updatedAt |-> p.updatedAt, data |-> h[p.data]]

Scenarios(h, projs) == [i \in 1..Len(projs) |-> Scenario(h, projs[i])]

\* C1: when saveProject is called twice in a row while the same id stays
\* bound, the second call adds no record: the list is as long as before and
\* holds exactly one record with that id.
C1_SecondSaveKeepsOneRecord ==
    [][(/\ lastOp.op = "saveProject"
        /\ lastOp'.op = "saveProject"
        /\ activeProjectId' = activeProjectId)
       => (/\ Len(projects') = Len(projects)
           /\ CountId(projects', activeProjectId') = 1)]_vars

Refused(json) ==
    \/ ~json.wellFormed
    \/ json.top = "null"
    \/ json.projectsKind # "array"
    \/ \E i \in 1..Len(json.items) :
         \/ json.items[i].isNull
         \/ json.items[i].id.t = "absent"
         \/ json.items[i].name = Absent
         \/ json.items[i].name = ""
         \/ ~json.items[i].data.present

\* C3: importProjects returns true or false for every text and never
\* throws; a call that returns false leaves the list, the bound id and the
\* working configuration as they were, and no call on a text it is to refuse
\* returns true.
C3_ImportNeverThrows ==
    [][lastOp'.op = "importProjects"
       => (/\ lastOp'.ret \in {"true", "false"}
           /\ lastOp'.ret = "false"
              => UNCHANGED <<heap, currentProject, projects, activeProjectId>>
           /\ lastOp'.ret = "true"
              => \A json \in Files : Refused(json) => ~importProjects(json))]_vars

\* a refused import left a list of two scenarios and a bound id
C3_Witness ==
    /\ lastOp = [op |-> "importProjects", ret |-> "false"]
    /\ Len(projects) = 2
    /\ activeProjectId # Null

\* C4: importProjects(exportProjects()) on the same store leaves the list
\* with the same scenarios: same length, same ids, names and data.
C4_ReimportKeepsList ==
    [][lastOp'.op = "importExported"
       => Scenarios(heap', projects') = Scenarios(heap, projects)]_vars

\* C5: saveProject with no scenario bound appends one scenario whose id is
\* different from the id of every scenario already in the list, and binds
\* that id.
C5_CreateBindsFreshId ==
    [][lastOp' = [op |-> "saveProject", ret |-> "created"]
       => (/\ Len(projects') = Len(projects) + 1
           /\ SubSeq(Values(heap', projects'), 1, Len(projects)) = Values(heap, projects)
           /\ projects'[Len(projects')].id \notin IdsOf(projects)
           /\ activeProjectId' = projects'[Len(projects')].id)]_vars

C7_DeleteProject ==
    [][\A id \in CallerIds :
         (lastOp'.op = "deleteProject" /\ deleteProject(id))
         => (/\ Scenarios(heap', projects')
                  = Scenarios(heap, SelectSeq(projects, LAMBDA p : p.id # id))
             /\ Len(projects') = Len(projects) - CountId(projects, id)
             /\ id.t = "str" => id \notin IdsOf(projects')
             /\ IF activeProjectId = id
                THEN /\ activeProjectId' = Null
                     /\ heap'[currentProject'] = defaultProjectData
                ELSE /\ IdText(activeProjectId') = IdText(activeProjectId)
                     /\ heap'[currentProject'] = heap[currentProject])]_vars

\* the bound scenario was deleted while another one stayed in the list
C7_Witness ==
    /\ lastOp = [op |-> "deleteProject", ret |-> "active"]
    /\ activeProjectId = Null
    /\ heap[currentProject] = defaultProjectData
    /\ Len(projects) = 1

SetterCall ==
    \/ \E u \in UpdateValues : updateCurrentProject(u)
    \/ \E m \in Modes : setMode(m)
    \/ \E i \in IncomeLists : setIncomes(i)
    \/ \E e \in ExpenseValues : setMonthlyExpenses(e)
    \/ \E c \in CurrencyValues : setDisplayCurrency(c)
    \/ \E o \in SrlOptionValues : setSrlOptions(o)

C9_IsMicro ==
    HasResult
    => (/\ MICRO_REVENUE_LIMIT = 500000
        /\ calcOut.annualRevenue = calculateAnnualIncome(calcIn.incomes)
        /\ calcOut.isMicro
             <=> (calcIn.srlOptions.isMicro /\ calcOut.annualRevenue <= 500000))

\* the option is set and the revenue is one RON above the limit
C9_Witness ==
    /\ HasResult
    /\ calcIn.srlOptions.isMicro
    /\ calcOut.annualRevenue = 500001
    /\ ~calcOut.isMicro

\* C10: corporateTax is 1% of annualRevenue when isMicro is true and 16% of
\* grossProfit otherwise; with a revenue of 600000 and the option isMicro
\* set, canBeMicro and isMicro are false and the tax is 16% of grossProfit.
C10_CorporateTax ==
    HasResult
    => (/\ IF calcOut.isMicro
           THEN Mul(calcOut.corporateTax, Whole(100)) = Whole(calcOut.annualRevenue)
           ELSE Mul(calcOut.corporateTax, Whole(100)) = Mul(calcOut.grossProfit, Whole(16))
        /\ (calcIn.srlOptions.isMicro /\ calcOut.annualRevenue = 600000)
           => (/\ ~calcOut.canBeMicro
               /\ ~calcOut.isMicro
               /\ Mul(calcOut.corporateTax, Whole(100)) = Mul(calcOut.grossProfit, Whole(16))))

\* revenue 600000 with the option set, no expenses and no salary: the profit
\* is 592200 and the tax 94752
C10_Witness ==
    /\ HasResult
    /\ calcIn.srlOptions.isMicro
    /\ calcOut.annualRevenue = 600000
    /\ calcOut.grossProfit = Whole(592200)
    /\ calcOut.corporateTax = Whole(94752)

\* C11: vatToPay is never negative: it is 0 whenever vatCollected is at most
\* vatOnExpenses and their difference otherwise; with vatStatus
\* not_registered, vatCollected, vatOnExpenses and vatToPay are all 0.
C11_VatToPay ==
    HasResult
    => (/\ calcOut.vatToPay.n >= 0
        /\ IF Less(calcOut.vatOnExpenses, calcOut.vatCollected)
           THEN Add(calcOut.vatToPay, calcOut.vatOnExpenses) = calcOut.vatCollected
           ELSE calcOut.vatToPay = Whole(0)
        /\ calcIn.srlOptions.vatStatus = "not_registered"
           => (/\ calcOut.vatCollected = Whole(0)
               /\ calcOut.vatOnExpenses = Whole(0)
               /\ calcOut.vatToPay = Whole(0)))

\* a registered company whose deductible VAT exceeds the VAT it collected
C11_Witness ==
    /\ HasResult
    /\ calcIn.srlOptions.vatStatus = "registered"
    /\ calcOut.vatCollected.n > 0
    /\ Less(calcOut.vatCollected, calcOut.vatOnExpenses)
    /\ calcOut.vatToPay = Whole(0)

\* what an entry adds to the year when months is a direct multiplier
DirectContribution(inc) ==
    IF inc.isRecurring THEN inc.amount * inc.months ELSE inc.amount

\* what an entry adds to the year when months 0 stands for 12
Contribution(inc) ==
    IF ~inc.isRecurring THEN inc.amount
    ELSE IF inc.months = 0 THEN inc.amount * 12
    ELSE inc.amount * inc.months

\* the sum of f over the entries from the i-th on
RECURSIVE SumFrom(_, _, _)
SumFrom(f(_), incomes, i) ==
    IF i > Len(incomes) THEN 0 ELSE f(incomes[i]) + SumFrom(f, incomes, i + 1)

\* C12 as stated: for every list, with any integer months, the aggregate is
\* the sum of amount x months over the recurring entries and of amount over
\* the others.
C12_AggregateDirectMultiplier ==
    HasResult => calcOut.annualGross = SumFrom(DirectContribution, calcIn.incomes, 1)

\* C12, amended: the aggregate is the sum over the entries of amount when the
\* entry is not recurring, of amount x months when it is and months is not 0,
\* and of amount x 12 when it is and months is 0; the empty list gives 0.
C12_AggregateDefaultsTo12 ==
    HasResult
    => (/\ calcOut.annualGross = SumFrom(Contribution, calcIn.incomes, 1)
        /\ calcIn.incomes = << >> => calcOut.annualGross = 0)

\* a recurring entry of 2000 with months 0 counts for 24000
C12_Witness ==
    /\ HasResult
    /\ Len(calcIn.incomes) = 1
    /\ calcIn.incomes[1].isRecurring
    /\ calcIn.incomes[1].months = 0
    /\ calcOut.annualGross = 24000

\* C13: netIncome is never negative: it is annualGross - 12 x monthlyExpenses
\* when that is positive and 0 otherwise.
C13_NetIncome ==
    HasResult
    => (/\ calcOut.netIncome >= 0
        /\ IF calcOut.annualGross - 12 * calcIn.monthlyExpenses > 0
           THEN calcOut.netIncome = calcOut.annualGross - 12 * calcIn.monthlyExpenses
           ELSE calcOut.netIncome = 0)

\* the expenses of the year exceed a positive gross
C13_Witness ==
    /\ HasResult
    /\ calcOut.annualGross > 0
    /\ calcOut.annualExpenses > calcOut.annualGross
    /\ calcOut.netIncome = 0

\* net incomes around every threshold
SampleIncomes ==
    {0, 1, 24299, 24300, 24301, 48600, 48601, 97200, 97201, 150000,
     242999, 243000, 243001, 291600, 300000, 1000000}

C15_CasStep ==
    HasResult
    => (/\ calcOut.cas \in {Whole(0), Whole(12150), Whole(24300)}
        /\ calcOut.netIncome <= 48600
           => (calcOut.cas = Whole(0) /\ calcOut.casStatus = "not_required")
        /\ (48600 < calcOut.netIncome /\ calcOut.netIncome <= 97200)
           => (calcOut.cas = Whole(12150) /\ calcOut.casStatus = "tier1")
        /\ calcOut.netIncome > 97200
           => (calcOut.cas = Whole(24300) /\ calcOut.casStatus = "tier2")
        /\ CAS_TIER2 = Mul(CAS_TIER1, Whole(2))
        /\ calcOut.casStatus = "not_required" <=> calcOut.cas = Whole(0)
        /\ calcOut.casStatus = "tier1" <=> calcOut.cas = CAS_TIER1
        /\ calcOut.casStatus = "tier2" <=> calcOut.cas = CAS_TIER2)

\* a net income at the upper threshold is still in tier1
C15_Witness ==
    /\ HasResult
    /\ calcOut.netIncome = 97200
    /\ calcOut.cas = Whole(12150)
    /\ calcOut.casStatus = "tier1"

C17_DefaultCase ==
    (/\ HasResult
     /\ calcIn.incomes = <<Income(4000, FALSE, 1)>>
     /\ calcIn.monthlyExpenses = 0
     /\ ~calcIn.pfaOptions.isEmployed)
    => (/\ calcOut.netIncome = 4000
        /\ calcOut.cas = Whole(0)
        /\ calcOut.casStatus = "not_required"
        /\ calcOut.cass = Whole(2430)
        /\ calcOut.taxableBase = Whole(1570)
        /\ calcOut.incomeTax = Whole(157)
        /\ calcOut.totalTaxes = Whole(2587))

\* the case has been computed
C17_Witness ==
    /\ HasResult
    /\ calcIn.incomes = <<Income(4000, FALSE, 1)>>
    /\ calcIn.monthlyExpenses = 0
    /\ ~calcIn.pfaOptions.isEmployed
    /\ calcOut.totalTaxes = Whole(2587)
    /\ calcOut.canSpend = Whole(1413)

\* C18: as the README documents it, the health contribution (of a person who
\* is not employed) is 2430 below 24300, 10% of the income from 24300 to
\* 291600, and 29160 above 291600.
C18_ReadmeCass ==
    (HasResult /\ ~calcIn.pfaOptions.isEmployed)
    => IF calcOut.netIncome < 24300 THEN calcOut.cass = Whole(2430)
       ELSE IF calcOut.netIncome <= 291600
       THEN Mul(calcOut.cass, Whole(10)) = Whole(calcOut.netIncome)
       ELSE calcOut.cass = Whole(29160)

\* C19: canSpend is netIncome - totalTaxes with totalTaxes = cas + cass +
\* incomeTax, not clamped: it is negative exactly when totalTaxes exceeds
\* netIncome, and -2430 for a net income of 0 of a person not employed.
C19_CanSpend ==
    HasResult
    => (/\ Add(calcOut.canSpend, calcOut.totalTaxes) = Whole(calcOut.netIncome)
        /\ calcOut.totalTaxes = Add(calcOut.cas, Add(calcOut.cass, calcOut.incomeTax))
        /\ calcOut.canSpend.n < 0 <=> Less(Whole(calcOut.netIncome), calcOut.totalTaxes)
        /\ (calcOut.netIncome = 0 /\ ~calcIn.pfaOptions.isEmployed)
           => calcOut.canSpend = Whole(-2430))

\* nothing earned, not employed: the minimum contribution is owed
C19_Witness ==
    /\ HasResult
    /\ ~calcIn.pfaOptions.isEmployed
    /\ calcOut.netIncome = 0
    /\ calcOut.totalTaxes = Whole(2430)
    /\ calcOut.canSpend = Whole(-2430)

\* the fields of the company breakdown that report VAT
VatFields == {"isVATRegistered", "vatCollected", "vatOnExpenses", "vatToPay"}

\* C20: with the incomes, the expenses and the other options fixed, another
\* vatStatus or euRevenuePercent changes no field of the breakdown but the
\* four that report VAT; totalGovTaxes = corporateTax + dividendTax + the
\* salary taxes when a salary is paid.
C20_VatOutsideGovTaxes ==
    HasResult
    => (/\ \A v \in {"not_registered", "registered", "voluntary"}, e \in {0, 50, 100} :
             LET other == useSRLCalculations(calcIn.incomes, calcIn.monthlyExpenses,
                              [calcIn.srlOptions EXCEPT !.vatStatus = v,
                                                        !.euRevenuePercent = e])
             IN \A f \in (DOMAIN calcOut) \ VatFields : other[f] = calcOut[f]
        /\ calcOut.totalGovTaxes
             = Add(Add(calcOut.corporateTax, calcOut.dividendTax),
                   IF calcIn.srlOptions.paySalary
                   THEN Add(Add(calcOut.salaryEmployerCAM, calcOut.salaryEmployeeCAS),
                            Add(calcOut.salaryEmployeeCASS, calcOut.salaryIncomeTax))
                   ELSE Whole(0)))

\* a registered company that owes VAT, pays a salary and distributes dividends
C20_Witness ==
    /\ HasResult
    /\ calcIn.srlOptions.vatStatus = "registered"
    /\ calcIn.srlOptions.paySalary
    /\ calcOut.vatToPay.n > 0
    /\ calcOut.dividendTax.n > 0
    /\ calcOut.salaryIncomeTax.n > 0

\* the request failed in the sense of the contract: no response, a status
\* outside 2xx, or a body that is not {rates: {EUR: number, USD: number}}
FetchFailed(r) ==
    \/ ~r.resolved
    \/ ~r.ok
    \/ ~r.parses
    \/ r.data # "object"
    \/ r.ratesKind # "object"
    \/ r.EUR.t # "number"
    \/ r.USD.t # "number"

\* C21: after a run of fetchRates on a failed request the rates are the
\* fallback table, the error flag is set and isLoading is false; after any
\* run the rates hold a number for EUR and for USD.
C21_FallbackOnFailure ==
    exchange.fetches > 0
    => (/\ FetchFailed(exchange.response)
           => (/\ exchange.rates.EUR = Number(FALLBACK_RATES.EUR)
               /\ exchange.rates.USD = Number(FALLBACK_RATES.USD)
               /\ exchange.rates.RON = Number(Whole(1))
               /\ exchange.error # "null"
               /\ ~exchange.isLoading)
        /\ exchange.rates.EUR.t = "number"
        /\ exchange.rates.USD.t = "number")

\* a file with a projects array in which some scenario lacks id, name or data
SomeItemLacks(json) ==
    /\ json.wellFormed
    /\ json.top = "object"
    /\ json.projectsKind = "array"
    /\ \E i \in 1..Len(json.items) :
         \/ json.items[i].isNull
         \/ json.items[i].id.t = "absent"
         \/ json.items[i].name = Absent
         \/ ~json.items[i].data.present

\* C22: importProjects on a file in which some scenario lacks id, name or
\* data adds none of the file's scenarios, the valid ones included, and
\* returns false.
C22_ImportAllOrNothing ==
    [][lastOp'.op = "importProjects"
       => \A json \in Files :
            (SomeItemLacks(json) /\ importProjects(json))
            => (/\ lastOp'.ret = "false"
                /\ Len(projects') = Len(projects)
                /\ Scenarios(heap', projects') = Scenarios(heap, projects))]_vars

\* a refused import on a list of one scenario, to which the valid scenario
\* "1" of a file with an incomplete scenario was not added
C22_Witness ==
    /\ lastOp = [op |-> "importProjects", ret |-> "false"]
    /\ Len(projects) = 1
    /\ StrId(1) \notin IdsOf(projects)

\* C23: a saveProject that updates leaves the list as long as it was and the
\* bound id bound; the scenario find returns for the bound id keeps its id,
\* its createdAt and its place, and gets a name, the time of the call and the
\* working configuration; every scenario at another place is as it was.
C23_UpdateRewritesBoundOnly ==
    [][lastOp' = [op |-> "saveProject", ret |-> "updated"]
       => LET k == Min({i \in 1..Len(projects) : projects[i].id = activeProjectId})
          IN /\ Len(projects') = Len(projects)
             /\ IdText(activeProjectId') = IdText(activeProjectId)
             /\ IdText(projects'[k].id) = IdText(projects[k].id)
             /\ projects'[k].createdAt = projects[k].createdAt
             /\ projects'[k].name \in Names
             /\ projects'[k].updatedAt = clock'
             /\ heap'[projects'[k].data] = heap[currentProject]
             /\ heap'[currentProject'] = heap[currentProject]
             /\ \A i \in 1..Len(projects) \ {k} :
                  Scenario(heap', projects'[i]) = Scenario(heap, projects[i])]_vars

\* C24: the net profit is split exactly: dividendAmount is netProfit times
\* dividendPercent / 100, dividendTax is 16% of dividendAmount, dividendNet
\* plus dividendTax is dividendAmount, and dividendAmount plus retainedProfit
\* is netProfit; grossProfit and netProfit are clamped at 0, and none of the
\* six amounts is negative, the micro regime with a tax above the gross
\* profit included.
C24_DividendSplit ==
    HasResult
    => (/\ calcOut.dividendAmount
             = Mul(calcOut.netProfit, Rat(calcIn.srlOptions.dividendPercent, 100))
        /\ Mul(calcOut.dividendTax, Whole(100)) = Mul(calcOut.dividendAmount, Whole(16))
        /\ Add(calcOut.dividendNet, calcOut.dividendTax) = calcOut.dividendAmount
        /\ Add(calcOut.dividendAmount, calcOut.retainedProfit) = calcOut.netProfit
        /\ calcOut.netProfit
             = (IF Less(calcOut.grossProfit, calcOut.corporateTax)
                THEN Whole(0)
                ELSE Sub(calcOut.grossProfit, calcOut.corporateTax))
        /\ calcOut.grossProfit.n >= 0
        /\ calcOut.netProfit.n >= 0
        /\ calcOut.dividendAmount.n >= 0
        /\ calcOut.dividendTax.n >= 0
        /\ calcOut.dividendNet.n >= 0
        /\ calcOut.retainedProfit.n >= 0)

\* a micro company whose 1% tax on the revenue is above its gross profit of
\* 0, asked to pay out half of its profit
C24_Witness ==
    /\ HasResult
    /\ calcOut.isMicro
    /\ calcOut.annualRevenue = 4000
    /\ calcOut.grossProfit = Whole(0)
    /\ calcOut.corporateTax = Whole(40)
    /\ calcOut.netProfit = Whole(0)
    /\ calcIn.srlOptions.dividendPercent = 50

\* C25: in every state the store reaches, activeProjectId is null or the id
\* of a scenario in the list.
C25_ActiveIdInList ==
    activeProjectId = Null \/ activeProjectId \in IdsOf(projects)

\* the only scenario of the list was bound and has been deleted
C25_Witness ==
    /\ lastOp = [op |-> "deleteProject", ret |-> "active"]
    /\ projects = << >>
    /\ activeProjectId = Null

\* C26: in every state the store reaches, no two scenarios of the list have
\* the same id.
C26_IdsAreUnique ==
    \A i, j \in 1..Len(projects) :
        projects[i].id = projects[j].id => i = j

\* C27: importProjects accepts the text exportProjects returns:
\* importProjects(exportProjects()) on the same store returns true.
C27_ExportIsAccepted ==
    [][lastOp'.op = "importExported" => lastOp'.ret = "true"]_vars

\* C28: a loadProject of the bound id that follows a saveProject, no setter
\* call in between, leaves the working configuration equal to what it was
\* at the save.
C28_SaveLoadRoundTrip ==
    [][(/\ lastOp.op = "saveProject"
        /\ lastOp'.op = "loadProject"
        /\ loadProject(activeProjectId))
       => heap'[currentProject'] = heap[currentProject]]_vars

\* totalTaxes of a person whose net income is a, with the options of the
\* rendered calculator
TotalTaxesAt(a) ==
    usePFACalculations(<<Income(a, FALSE, 1)>>, 0, calcIn.pfaOptions).totalTaxes

\* C29: for a fixed isEmployed, totalTaxes (cas + cass + incomeTax) does not
\* decrease when netIncome grows, across every band boundary, the pension
\* steps at 48600 and 97200 where incomeTax drops included.
C29_TotalTaxesMonotone ==
    HasResult
    => (/\ calcOut.totalTaxes = Add(Add(calcOut.cas, calcOut.cass), calcOut.incomeTax)
        /\ \A a \in SampleIncomes :
             /\ a <= calcOut.netIncome
                => ~Less(calcOut.totalTaxes, TotalTaxesAt(a))
             /\ a >= calcOut.netIncome
                => ~Less(TotalTaxesAt(a), calcOut.totalTaxes)
        /\ \A a, b \in SampleIncomes :
             a <= b => ~Less(TotalTaxesAt(b), TotalTaxesAt(a)))

\* one leu above 97200: the income tax is below the 7533 due at 97200 and
\* the total is above the 29403 due there
C29_Witness ==
    /\ HasResult
    /\ calcOut.netIncome = 97201
    /\ calcOut.cas = Whole(24300)
    /\ Less(calcOut.incomeTax, Whole(7533))
    /\ Less(Whole(29403), calcOut.totalTaxes)
    /\ TotalTaxesAt(97200) = Whole(29403)

\* neither clamp of the profit block is active
NoClampActive ==
    /\ Sub(Sub(Sub(Whole(calcOut.annualRevenue), Whole(calcOut.annualExpenses)),
               calcOut.salaryCostToCompany), calcOut.operatingCosts).n >= 0
    /\ ~Less(calcOut.grossProfit, calcOut.corporateTax)

\* C30: operatingCosts is 7800; salaryCostToCompany is salaryNetToOwner plus
\* the four salary taxes, every salary amount being 0 when no salary is paid;
\* and whenever neither clamp is active, annualRevenue = annualExpenses +
\* operatingCosts + totalGovTaxes + totalToOwner + retainedProfit.
C30_MoneyConservation ==
    HasResult
    => (/\ calcOut.operatingCosts = Whole(7800)
        /\ calcOut.salaryCostToCompany
             = Add(calcOut.salaryNetToOwner,
                   Add(Add(Add(calcOut.salaryEmployerCAM, calcOut.salaryEmployeeCAS),
                           calcOut.salaryEmployeeCASS), calcOut.salaryIncomeTax))
        /\ ~calcIn.srlOptions.paySalary
           => (/\ calcOut.salaryCostToCompany = Whole(0)
               /\ calcOut.salaryNetToOwner = Whole(0)
               /\ calcOut.salaryEmployerCAM = Whole(0)
               /\ calcOut.salaryEmployeeCAS = Whole(0)
               /\ calcOut.salaryEmployeeCASS = Whole(0)
               /\ calcOut.salaryIncomeTax = Whole(0))
        /\ NoClampActive
           => Whole(calcOut.annualRevenue)
                = Add(Add(Add(Add(Whole(calcOut.annualExpenses), calcOut.operatingCosts),
                              calcOut.totalGovTaxes), calcOut.totalToOwner),
                      calcOut.retainedProfit))

\* a company that pays a salary and half of a positive profit as dividends,
\* no clamp active
C30_Witness ==
    /\ HasResult
    /\ NoClampActive
    /\ calcIn.srlOptions.paySalary
    /\ calcIn.srlOptions.dividendPercent = 50
    /\ calcOut.annualRevenue = 600000
    /\ calcOut.annualExpenses = 12000
    /\ calcOut.retainedProfit.n > 0
====
